---- MODULE Spec2Model ----
(***************************************************************************)
(* SQLCopilot demo: the question-to-insight pipeline of app.py             *)
(* (Translator, Executor, Validator, Reporter and the page script that     *)
(* orchestrates them over st.session_state) and the fixture generator of   *)
(* init_db.py.                                                             *)
(*                                                                         *)
(* Text is modelled as a sequence of characters (each a string), so that   *)
(* strip / split / replace / upper are computed as Python computes them.   *)
(* An optional value (a key of st.session_state that may be absent) is a   *)
(* sequence of length 0 or 1.                                              *)
(***************************************************************************)
EXTENDS Integers, Sequences, FiniteSets, TLC

VARIABLES
    pc,              \* position of the running script / function
    raw,             \* response.choices[0].message.content of the Translator call
    generated_sql,   \* local generated_sql of the page script
    df,              \* local df of the page script (a DataFrame)
    checks,          \* the "summary" list built by basic_result_validation
    store,           \* card_transactions.db: the card_transactions table
    hist,            \* the last two fixture operations run against the store
    v1runs,          \* how many times the earlier create_db has inserted
    user_question,   \* value of the st.text_input widget
    opt_in,          \* value of the st.checkbox widget
    checkbox_shown,  \* whether the last script run rendered the checkbox
    session,         \* st.session_state: last_question, last_sql, last_df
    conns,           \* sqlite3 connections currently open
    nextConn,        \* identity of the next connection object
    connLog,         \* connection used by each run_sql call, in call order
    failed,          \* whether the run_sql call in progress has raised
    steps,           \* steps the current script run has executed so far
    session0,        \* st.session_state as it was when the current run began
    lastOk,          \* (question, sql, df) of the latest cycle whose Executor returned
    validatedOn,     \* argument of the latest basic_result_validation call
    reportedOn,      \* arguments of the latest generate_ai_report call
    last_question    \* local last_question of the page script

vars == << pc, raw, generated_sql, df, checks, store, hist, v1runs,
           user_question, opt_in, checkbox_shown, session, conns, nextConn,
           connLog, failed, steps, session0, lastOk, validatedOn, reportedOn,
           last_question >>

----------------------------------------------------------------------------
(* Bounds of the model *)

MaxWords == 3        \* words in a Translator response
MaxRows == 2         \* rows in a validated result
MaxPriorId == 3      \* largest transaction_id the table may hold before a build
MaxV1Runs == 2       \* inserts by the earlier create_db in one behaviour
MaxCalls == 3        \* run_sql calls in one behaviour

----------------------------------------------------------------------------
(* Python str operations on sequences of characters *)

None == << >>
Some(v) == << v >>

IsSpace(c) == c \in {" ", "\n"}

RECURSIVE LStrip(_)
LStrip(s) == IF s # << >> /\ IsSpace(Head(s)) THEN LStrip(Tail(s)) ELSE s

RECURSIVE RStrip(_)
RStrip(s) ==
    IF s # << >> /\ IsSpace(s[Len(s)]) THEN RStrip(SubSeq(s, 1, Len(s) - 1)) ELSE s

Strip(s) == RStrip(LStrip(s))

StartsWith(s, p) == Len(s) >= Len(p) /\ SubSeq(s, 1, Len(p)) = p

\* p in s
Contains(s, p) == \E i \in 1..(Len(s) - Len(p) + 1) : SubSeq(s, i, i + Len(p) - 1) = p

UpperChar(c) ==
    CASE c = "s" -> "S" [] c = "e" -> "E" [] c = "l" -> "L" [] c = "c" -> "C"
      [] c = "t" -> "T" [] c = "q" -> "Q" [] c = "x" -> "X" [] c = "d" -> "D"
      [] c = "r" -> "R" [] c = "o" -> "O" [] c = "p" -> "P" [] OTHER -> c

Upper(s) == [i \in 1..Len(s) |-> UpperChar(s[i])]

\* s.split(sep): leftmost, non-overlapping separators; always at least one part
RECURSIVE SplitAcc(_, _, _)
SplitAcc(s, sep, cur) ==
    IF s = << >> THEN << cur >>
    ELSE IF StartsWith(s, sep)
         THEN << cur >> \o SplitAcc(SubSeq(s, Len(sep) + 1, Len(s)), sep, << >>)
         ELSE SplitAcc(Tail(s), sep, Append(cur, Head(s)))

Split(s, sep) == SplitAcc(s, sep, << >>)

\* s.replace(old, new): leftmost, non-overlapping occurrences
RECURSIVE Replace(_, _, _)
Replace(s, old, new) ==
    IF s = << >> THEN << >>
    ELSE IF StartsWith(s, old)
         THEN new \o Replace(SubSeq(s, Len(old) + 1, Len(s)), old, new)
         ELSE << Head(s) >> \o Replace(Tail(s), old, new)

RECURSIVE Concat(_)
Concat(ws) == IF ws = << >> THEN << >> ELSE Head(ws) \o Concat(Tail(ws))

----------------------------------------------------------------------------
(* Question Translator: post-processing of the response, app.py 75-87 *)

\* the backquote character is written "BQ" (strings of the model hold no backquote)
BQ == "BQ"
FENCE == << BQ, BQ, BQ >>
TAG == << "s", "q", "l" >>
KEYWORD == << "S", "E", "L", "E", "C", "T" >>

\* the for-loop of lines 81-84: the first part whose upper-case form has SELECT
RECURSIVE FirstSelectPart(_, _)
FirstSelectPart(parts, dflt) ==
    IF parts = << >> THEN dflt
    ELSE IF Contains(Upper(Head(parts)), KEYWORD) THEN Head(parts)
         ELSE FirstSelectPart(Tail(parts), dflt)

\* lines 75-87, from the response content to the returned sql
ExtractSql(content) ==
    LET sql == Strip(content) IN
    IF Contains(sql, FENCE)
    THEN Strip(Replace(FirstSelectPart(Split(sql, FENCE), sql), TAG, << >>))
    ELSE sql

\* words a response is built from
Words == { FENCE, TAG, KEYWORD, << "s", "e", "l", "e", "c", "t" >>,
           << " " >>, << "\n" >>, << "x" >> }

WordSeqs == UNION { [1..n -> Words] : n \in 0..MaxWords }

Responses == { Concat(ws) : ws \in WordSeqs }

----------------------------------------------------------------------------
(* Result Validator: basic_result_validation, app.py 99-131 *)

\* A DataFrame: column names, and rows as tuples aligned with the columns.
\* amount is held in cents and is_fraud in thousandths, so that sums, means and
\* the comparisons with 0, 10 and 0.1 are exact integer arithmetic.
HasCol(d, name) == \E i \in 1..Len(d.columns) : d.columns[i] = name

ColIndex(d, name) == CHOOSE i \in 1..Len(d.columns) : d.columns[i] = name

Col(d, name) == [r \in 1..Len(d.rows) |-> d.rows[r][ColIndex(d, name)]]

\* df.empty: either axis has length 0
Empty(d) == Len(d.rows) = 0 \/ Len(d.columns) = 0

RECURSIVE Sum(_)
Sum(s) == IF s = << >> THEN 0 ELSE Head(s) + Sum(Tail(s))

Msg(kind, a, b) == [kind |-> kind, a |-> a, b |-> b]

PERCENT == 100
HIGH_FRAUD == 10
LOW_FRAUD_INV == 10

\* rate = mean * 100 as the fraction num / den (line 124)
RateNum(d) == Sum(Col(d, "is_fraud")) * PERCENT
RateDen(d) == Len(d.rows) * 1000

\* lines 113-120
AmountChecksLe(d) ==
    IF HasCol(d, "amount")
    THEN LET total == Sum(Col(d, "amount")) IN
         << Msg("total_amount", total, 0) >>
         \o (IF total <= 0 THEN << Msg("negative_total", 0, 0) >>
             ELSE IF total = 0 THEN << Msg("zero_total", 0, 0) >>
             ELSE << >>)
    ELSE << >>

AmountChecks(d) ==
    IF HasCol(d, "amount")
    THEN LET total == Sum(Col(d, "amount")) IN
         << Msg("total_amount", total, 0) >>
         \o (IF total < 0 THEN << Msg("negative_total", 0, 0) >>
             ELSE IF total = 0 THEN << Msg("zero_total", 0, 0) >>
             ELSE << >>)
    ELSE << >>

\* lines 123-129
FraudChecksGe(d) ==
    IF HasCol(d, "is_fraud")
    THEN << Msg("fraud_rate", RateNum(d), RateDen(d)) >>
         \o (IF RateNum(d) >= HIGH_FRAUD * RateDen(d)
             THEN << Msg("high_fraud", 0, 0) >>
             ELSE IF RateNum(d) * LOW_FRAUD_INV < RateDen(d)
                  THEN << Msg("low_fraud", 0, 0) >>
                  ELSE << >>)
    ELSE << >>

FraudChecks(d) ==
    IF HasCol(d, "is_fraud")
    THEN << Msg("fraud_rate", RateNum(d), RateDen(d)) >>
         \o (IF RateNum(d) > HIGH_FRAUD * RateDen(d)
             THEN << Msg("high_fraud", 0, 0) >>
             ELSE IF RateNum(d) * LOW_FRAUD_INV < RateDen(d)
                  THEN << Msg("low_fraud", 0, 0) >>
                  ELSE << >>)
    ELSE << >>

\* the early return of line 108 left out
ValidationNoEarlyReturn(d) ==
    (IF Empty(d) THEN << Msg("zero_rows", 0, 0) >>
     ELSE << Msg("row_col_count", Len(d.rows), Len(d.columns)) >>)
    \o AmountChecks(d) \o FraudChecks(d)

\* the fraud check written as an elif of the amount check
ValidationElif(d) ==
    IF Empty(d) THEN << Msg("zero_rows", 0, 0) >>
    ELSE << Msg("row_col_count", Len(d.rows), Len(d.columns)) >>
         \o (IF HasCol(d, "amount") THEN AmountChecks(d) ELSE FraudChecks(d))

\* lines 104-131, the value of result["summary"]
basic_result_validation(d) ==
    IF Empty(d) THEN << Msg("zero_rows", 0, 0) >>
    ELSE << Msg("row_col_count", Len(d.rows), Len(d.columns)) >>
         \o AmountChecks(d) \o FraudChecks(d)

\* results the Validator is applied to
ColumnLists == { << "state" >>, << "amount" >>, << "is_fraud" >>,
                 << "amount", "is_fraud" >>, << "is_fraud", "amount" >>,
                 << "state", "amount", "is_fraud" >> }

ValuesOf(name) ==
    CASE name = "amount" -> {-1, 0, 1}
      [] name = "is_fraud" -> {0, 1, 50, 100, 1000}
      [] OTHER -> {0}

RowsOf(cols) ==
    { r \in [1..Len(cols) -> {-1, 0, 1, 50, 100, 1000}] :
        \A i \in 1..Len(cols) : r[i] \in ValuesOf(cols[i]) }

FramesOver(cols) ==
    { [columns |-> cols, rows |-> rs] :
        rs \in UNION { [1..n -> RowsOf(cols)] : n \in 0..MaxRows } }

DataFrames == UNION { FramesOver(cols) : cols \in ColumnLists }

----------------------------------------------------------------------------
(* Fixture Generator: init_db.py *)

NUM_ROWS == 5000

\* The card_transactions table: whether it exists, whether its columns are the
\* ones the generator inserts into, the transaction_id of each row in rowid
\* order, and the AUTOINCREMENT counter kept in sqlite_sequence.
NoTable == [exists |-> FALSE, compat |-> FALSE, ids |-> << >>, seq |-> 0]

\* DROP TABLE IF EXISTS card_transactions (also forgets the counter)
DropTable(st) == NoTable

\* CREATE TABLE card_transactions (...), on a store without the table
CreateTable(st) == [exists |-> TRUE, compat |-> TRUE, ids |-> << >>, seq |-> 0]

\* CREATE TABLE IF NOT EXISTS card_transactions (...)
CreateTableIfNotExists(st) == IF st.exists THEN st ELSE CreateTable(st)

\* DELETE FROM card_transactions (the counter is kept)
DeleteAll(st) == [st EXCEPT !.ids = << >>]

LastId(st) == IF st.ids = << >> THEN 0 ELSE st.ids[Len(st.ids)]

\* executemany INSERT of n rows: AUTOINCREMENT gives each row the id after the
\* larger of the counter and the largest id in the table
InsertRows(st, n) ==
    LET base == IF st.seq > LastId(st) THEN st.seq ELSE LastId(st) IN
    [st EXCEPT !.ids = st.ids \o [i \in 1..n |-> base + i], !.seq = base + n]

\* the earlier definition, lines 13-67; its INSERT raises on a table with other
\* columns, and the uncommitted DELETE is then rolled back
V1Raises(st) == st.exists /\ ~st.compat

create_db_v1(st) ==
    IF V1Raises(st) THEN st
    ELSE InsertRows(DeleteAll(CreateTableIfNotExists(st)), NUM_ROWS)

\* a build that keeps the table and appends to it
create_db_append(st) == InsertRows(CreateTableIfNotExists(st), NUM_ROWS)

\* the definition in force once the module is loaded, lines 85-138
create_db(st) == InsertRows(CreateTable(DropTable(st)), NUM_ROWS)

\* python init_db.py: line 70 calls the earlier definition, and unless that
\* raises, line 141 calls the later one
main(st) == IF V1Raises(st) THEN st ELSE create_db(create_db_v1(st))

\* tables a build may find: strictly increasing ids up to MaxPriorId
IncreasingSeqs ==
    { s \in UNION { [1..n -> 1..MaxPriorId] : n \in 0..MaxPriorId } :
        \A i \in 1..(Len(s) - 1) : s[i] < s[i + 1] }

PriorStores ==
    { NoTable }
    \cup { [exists |-> TRUE, compat |-> c, ids |-> s, seq |-> q] :
             c \in BOOLEAN, s \in IncreasingSeqs, q \in 0..MaxPriorId }

Remember(h, tag) == IF Len(h) < 2 THEN Append(h, tag) ELSE << h[2], tag >>

----------------------------------------------------------------------------
(* Query Executor and the page script of app.py, lines 89-96 and 187-252 *)

\* what the Executor's statement does, by its leading keyword
IsSelect(sql) == StartsWith(Upper(sql), KEYWORD)
IsDrop(sql) == StartsWith(Upper(sql), << "D", "R", "O", "P" >>)

\* responses of the text-generation service used in the page script
SELECT_X == KEYWORD \o << " ", "x" >>
SessionResponses ==
    { SELECT_X,
      FENCE \o TAG \o << "\n" >> \o SELECT_X \o << "\n" >> \o FENCE,
      << "D", "R", "O", "P", " ", "x" >>,
      << "d", "e", "l", "e", "t", "e", " ", "x" >>,
      << "x" >> }

\* results read_sql_query may return for a SELECT
SessionResults ==
    { [columns |-> << "amount", "is_fraud" >>, rows |-> << >>],
      [columns |-> << "amount", "is_fraud" >>, rows |-> << << 1, 0 >> >>],
      [columns |-> << "state" >>, rows |-> << << 0 >> >>] }

Questions == { << >>, << " " >>, << "a" >>, << " ", "b" >> }

SessionStores ==
    { NoTable, [exists |-> TRUE, compat |-> TRUE, ids |-> << 1, 2 >>, seq |-> 2] }

EmptySession == [last_question |-> None, last_sql |-> None, last_df |-> None]

\* a script run begins: Streamlit reruns the script from the top
BeginRun(next) ==
    /\ pc' = next
    /\ steps' = << >>
    /\ session0' = session

\* a script run ends (end of file or st.stop()); the state of a checkbox that
\* the run did not render is dropped
EndRun(shown) ==
    /\ pc' = "idle"
    /\ checkbox_shown' = shown
    /\ opt_in' = (shown /\ opt_in)

Unused == << raw, hist, v1runs >>
Locals == << generated_sql, df, last_question, failed >>
Db == << store, conns, nextConn, connLog >>
Ghosts == << lastOk, validatedOn, reportedOn >>

\* the user edits the text input: a rerun with generate_button False
EditQuestion ==
    /\ pc = "idle"
    /\ \E q \in Questions : q # user_question /\ user_question' = q
    /\ BeginRun("show")
    /\ UNCHANGED << Unused, Locals, Db, Ghosts, session, checks, opt_in, checkbox_shown >>

\* the user toggles the checkbox the last run rendered
ToggleCheckbox ==
    /\ pc = "idle" /\ checkbox_shown
    /\ opt_in' = ~opt_in
    /\ BeginRun("show")
    /\ UNCHANGED << Unused, Locals, Db, Ghosts, session, checks, user_question,
                    checkbox_shown >>

\* the user presses "Generate & Run SQL"
PressButton ==
    /\ pc = "idle" /\ nextConn <= MaxCalls
    /\ BeginRun("button")
    /\ UNCHANGED << Unused, Locals, Db, Ghosts, session, checks, user_question, opt_in,
                    checkbox_shown >>

\* lines 195-197
BlankQuestion ==
    /\ pc = "button" /\ Strip(user_question) = << >>
    /\ steps' = Append(steps, "warn_blank")
    /\ EndRun(FALSE)
    /\ UNCHANGED << Unused, Locals, Db, Ghosts, session, session0, checks, user_question >>

NonBlankQuestion ==
    /\ pc = "button" /\ Strip(user_question) # << >>
    /\ pc' = "translate"
    /\ UNCHANGED << Unused, Locals, Db, Ghosts, session, session0, checks, user_question,
                    opt_in, checkbox_shown, steps >>

\* lines 200-202: generate_sql_from_question returns
TranslateOk ==
    /\ pc = "translate"
    /\ \E r \in SessionResponses : raw' = r /\ generated_sql' = ExtractSql(r)
    /\ steps' = Append(steps, "translate")
    /\ pc' = "connect"
    /\ UNCHANGED << hist, v1runs, df, last_question, failed, Db, Ghosts, session, session0,
                    checks, user_question, opt_in, checkbox_shown >>

\* lines 203-205: the call raises
TranslateFailed ==
    /\ pc = "translate"
    /\ steps' = Append(steps, "translate_failed")
    /\ EndRun(FALSE)
    /\ UNCHANGED << Unused, Locals, Db, Ghosts, session, session0, checks, user_question >>

\* line 91: run_sql opens a connection of its own
Connect ==
    /\ pc = "connect"
    /\ conns' = conns \cup {nextConn}
    /\ connLog' = Append(connLog, nextConn)
    /\ nextConn' = nextConn + 1
    /\ failed' = FALSE
    /\ steps' = Append(steps, "execute")
    /\ pc' = "query"
    /\ UNCHANGED << Unused, generated_sql, df, last_question, store, Ghosts, session,
                    session0, checks, user_question, opt_in, checkbox_shown >>

\* line 91: sqlite3.connect raises, before the try
ConnectFailed ==
    /\ pc = "connect"
    /\ failed' = TRUE
    /\ steps' = Append(steps, "execute")
    /\ pc' = "raised"
    /\ UNCHANGED << Unused, generated_sql, df, last_question, Db, Ghosts, session,
                    session0, checks, user_question, opt_in, checkbox_shown >>

\* line 93: a SELECT on the table yields a DataFrame
QuerySelect ==
    /\ pc = "query" /\ IsSelect(generated_sql) /\ store.exists
    /\ \E d \in SessionResults : df' = d
    /\ pc' = "close"
    /\ UNCHANGED << Unused, generated_sql, last_question, failed, Db, Ghosts, session,
                    session0, checks, user_question, opt_in, checkbox_shown, steps >>

\* line 93: a DROP statement is executed by the cursor, outside any transaction,
\* and read_sql_query then raises because the cursor has no description
QueryDrop ==
    /\ pc = "query" /\ IsDrop(generated_sql)
    /\ store' = DropTable(store)
    /\ failed' = TRUE
    /\ pc' = "close"
    /\ UNCHANGED << Unused, generated_sql, df, last_question, conns, nextConn, connLog,
                    Ghosts, session, session0, checks, user_question, opt_in,
                    checkbox_shown, steps >>

\* line 93: any other statement raises: a syntax error, a SELECT on a missing
\* table, or a DELETE / INSERT / UPDATE, whose implicit transaction is never
\* committed and is rolled back when the connection closes
QueryRejected ==
    /\ pc = "query" /\ ~IsDrop(generated_sql)
    /\ ~(IsSelect(generated_sql) /\ store.exists)
    /\ failed' = TRUE
    /\ pc' = "close"
    /\ UNCHANGED << Unused, generated_sql, df, last_question, Db, Ghosts, session,
                    session0, checks, user_question, opt_in, checkbox_shown, steps >>

\* a run_sql whose conn.close() is not in a finally
CloseUnlessRaised ==
    /\ pc = "close"
    /\ conns' = IF failed THEN conns ELSE conns \ {connLog[Len(connLog)]}
    /\ pc' = IF failed THEN "raised" ELSE "returned"
    /\ lastOk' = IF failed THEN lastOk ELSE Some(<< user_question, generated_sql, df >>)
    /\ UNCHANGED << Unused, Locals, store, nextConn, connLog, validatedOn, reportedOn,
                    session, session0, checks, user_question, opt_in, checkbox_shown,
                    steps >>

\* lines 94-96: finally conn.close(), then the return or the raise
Close ==
    /\ pc = "close"
    /\ conns' = conns \ {connLog[Len(connLog)]}
    /\ pc' = IF failed THEN "raised" ELSE "returned"
    /\ lastOk' = IF failed THEN lastOk ELSE Some(<< user_question, generated_sql, df >>)
    /\ UNCHANGED << Unused, Locals, store, nextConn, connLog, validatedOn, reportedOn,
                    session, session0, checks, user_question, opt_in, checkbox_shown,
                    steps >>

\* an except clause that reports the error and goes on to line 216
ExecuteFailedNoStop ==
    /\ pc = "raised"
    /\ steps' = Append(steps, "execute_failed")
    /\ pc' = "returned"
    /\ UNCHANGED << Unused, Locals, Db, Ghosts, session, session0, checks, user_question,
                    opt_in, checkbox_shown >>

\* lines 211-213
ExecuteFailed ==
    /\ pc = "raised"
    /\ steps' = Append(steps, "execute_failed")
    /\ EndRun(FALSE)
    /\ UNCHANGED << Unused, Locals, Db, Ghosts, session, session0, checks, user_question >>

\* lines 216-218
StoreResult ==
    /\ pc = "returned"
    /\ session' = [last_question |-> Some(user_question),
                   last_sql |-> Some(generated_sql),
                   last_df |-> Some(df)]
    /\ steps' = Append(steps, "store")
    /\ pc' = "show"
    /\ UNCHANGED << Unused, Locals, Db, Ghosts, session0, checks, user_question, opt_in,
                    checkbox_shown >>

\* line 221 with no last_df: nothing more is rendered
ShowNothing ==
    /\ pc = "show" /\ session.last_df = None
    /\ EndRun(FALSE)
    /\ UNCHANGED << Unused, Locals, Db, Ghosts, session, session0, checks, user_question,
                    steps >>

\* lines 221-237: the last result is read back and validated
ShowLast ==
    /\ pc = "show" /\ session.last_df # None
    /\ df' = session.last_df[1]
    /\ generated_sql' = session.last_sql[1]
    /\ last_question' = session.last_question[1]
    /\ checks' = basic_result_validation(session.last_df[1])
    /\ validatedOn' = Some(session.last_df[1])
    /\ steps' = Append(steps, "validate")
    /\ pc' = "report"
    /\ UNCHANGED << Unused, failed, Db, lastOk, reportedOn, session, session0,
                    user_question, opt_in, checkbox_shown >>

\* line 240 on an empty result: the checkbox is not rendered
NoReportEmpty ==
    /\ pc = "report" /\ Empty(df)
    /\ EndRun(FALSE)
    /\ UNCHANGED << Unused, Locals, Db, Ghosts, session, session0, checks, user_question,
                    steps >>

\* line 241 with the checkbox unchecked
NoReportUnchecked ==
    /\ pc = "report" /\ ~Empty(df) /\ ~opt_in
    /\ EndRun(TRUE)
    /\ UNCHANGED << Unused, Locals, Db, Ghosts, session, session0, checks, user_question,
                    steps >>

\* a Reporter call given the text input instead of the stored question
ReporterArgsFromInput == << user_question, generated_sql, df >>

\* lines 244-248: the arguments of generate_ai_report
ReporterArgs == << last_question, generated_sql, df >>

\* lines 241-252: the Reporter is called; it returns or raises, and the run ends
Report ==
    /\ pc = "report" /\ ~Empty(df) /\ opt_in
    /\ reportedOn' = Some(ReporterArgs)
    /\ \E outcome \in {"report", "report_failed"} : steps' = Append(steps, outcome)
    /\ EndRun(TRUE)
    /\ UNCHANGED << Unused, Locals, Db, lastOk, validatedOn, session, session0, checks,
                    user_question >>

----------------------------------------------------------------------------
(* Specifications *)

InitCommon ==
    /\ raw = << >> /\ generated_sql = << >> /\ last_question = << >>
    /\ df = [columns |-> << >>, rows |-> << >>]
    /\ checks = << >>
    /\ hist = << >> /\ v1runs = 0
    /\ user_question = << >> /\ opt_in = FALSE /\ checkbox_shown = FALSE
    /\ session = EmptySession /\ session0 = EmptySession
    /\ conns = {} /\ nextConn = 1 /\ connLog = << >> /\ failed = FALSE
    /\ steps = << >>
    /\ lastOk = None /\ validatedOn = None /\ reportedOn = None

\* the page of app.py, one user interaction after another
Init ==
    /\ InitCommon
    /\ pc = "idle"
    /\ store \in SessionStores

Next ==
    \/ EditQuestion \/ ToggleCheckbox \/ PressButton
    \/ BlankQuestion \/ NonBlankQuestion
    \/ TranslateOk \/ TranslateFailed
    \/ Connect \/ ConnectFailed
    \/ QuerySelect \/ QueryDrop \/ QueryRejected
    \/ Close
    \/ ExecuteFailed
    \/ StoreResult
    \/ ShowNothing \/ ShowLast
    \/ NoReportEmpty \/ NoReportUnchecked \/ Report

Spec == Init /\ [][Next]_vars

\* generate_sql_from_question applied to one response
PostProcess ==
    /\ pc = "translator_call"
    /\ generated_sql' = ExtractSql(raw)
    /\ pc' = "translator_done"
    /\ UNCHANGED << raw, df, checks, store, hist, v1runs, user_question, opt_in,
                    checkbox_shown, session, conns, nextConn, connLog, failed, steps,
                    session0, lastOk, validatedOn, reportedOn, last_question >>

InitTranslator ==
    /\ pc = "translator_call"
    /\ raw \in Responses
    /\ generated_sql = << >> /\ last_question = << >>
    /\ df = [columns |-> << >>, rows |-> << >>]
    /\ checks = << >>
    /\ store = NoTable /\ hist = << >> /\ v1runs = 0
    /\ user_question = << >> /\ opt_in = FALSE /\ checkbox_shown = FALSE
    /\ session = EmptySession /\ session0 = EmptySession
    /\ conns = {} /\ nextConn = 1 /\ connLog = << >> /\ failed = FALSE
    /\ steps = << >>
    /\ lastOk = None /\ validatedOn = None /\ reportedOn = None

SpecTranslator == InitTranslator /\ [][PostProcess]_vars

\* basic_result_validation applied to one result
Validate ==
    /\ pc = "validator_call"
    /\ checks' = basic_result_validation(df)
    /\ pc' = "validator_done"
    /\ UNCHANGED << raw, generated_sql, df, store, hist, v1runs, user_question, opt_in,
                    checkbox_shown, session, conns, nextConn, connLog, failed, steps,
                    session0, lastOk, validatedOn, reportedOn, last_question >>

InitValidator ==
    /\ pc = "validator_call"
    /\ df \in DataFrames
    /\ raw = << >> /\ generated_sql = << >> /\ last_question = << >>
    /\ checks = << >>
    /\ store = NoTable /\ hist = << >> /\ v1runs = 0
    /\ user_question = << >> /\ opt_in = FALSE /\ checkbox_shown = FALSE
    /\ session = EmptySession /\ session0 = EmptySession
    /\ conns = {} /\ nextConn = 1 /\ connLog = << >> /\ failed = FALSE
    /\ steps = << >>
    /\ lastOk = None /\ validatedOn = None /\ reportedOn = None

SpecValidator == InitValidator /\ [][Validate]_vars

\* the fixture builds run against a store
NotStore == << pc, raw, generated_sql, df, checks, user_question, opt_in,
               checkbox_shown, session, conns, nextConn, connLog, failed, steps,
               session0, lastOk, validatedOn, reportedOn, last_question >>

BuildLater ==
    /\ store' = create_db(store)
    /\ hist' = Remember(hist, "create_db")
    /\ UNCHANGED << NotStore, v1runs >>

BuildEarlier ==
    /\ v1runs < MaxV1Runs
    /\ store' = create_db_v1(store)
    /\ hist' = Remember(hist, IF V1Raises(store) THEN "create_db_v1_raised"
                              ELSE "create_db_v1")
    /\ v1runs' = v1runs + 1
    /\ UNCHANGED NotStore

RunScript ==
    /\ store' = main(store)
    /\ hist' = Remember(hist, IF V1Raises(store) THEN "main_raised" ELSE "main")
    /\ UNCHANGED << NotStore, v1runs >>

InitFixture ==
    /\ pc = "fixture"
    /\ store \in PriorStores
    /\ raw = << >> /\ generated_sql = << >> /\ last_question = << >>
    /\ df = [columns |-> << >>, rows |-> << >>]
    /\ checks = << >>
    /\ hist = << >> /\ v1runs = 0
    /\ user_question = << >> /\ opt_in = FALSE /\ checkbox_shown = FALSE
    /\ session = EmptySession /\ session0 = EmptySession
    /\ conns = {} /\ nextConn = 1 /\ connLog = << >> /\ failed = FALSE
    /\ steps = << >>
    /\ lastOk = None /\ validatedOn = None /\ reportedOn = None

NextFixture == BuildLater \/ BuildEarlier \/ RunScript

SpecFixture == InitFixture /\ [][NextFixture]_vars

----------------------------------------------------------------------------
(* Properties *)

Last(s) == s[Len(s)]
Has(kind) == \E i \in 1..Len(checks) : checks[i].kind = kind
Occurs(step) == \E i \in 1..Len(steps) : steps[i] = step
SessionTriple ==
    IF session.last_df = None THEN None
    ELSE Some(<< session.last_question[1], session.last_sql[1], session.last_df[1] >>)

\* C1: when the Translator or the Executor fails in a cycle, the failure is the
\* last step of that script run (nothing after it runs, each step ran once) and
\* st.session_state is what it was when the run began.
C1_FailureHaltsCycle ==
    /\ Occurs("translate_failed") =>
         /\ steps = << "translate_failed" >>
         /\ pc = "idle"
         /\ session = session0
    /\ pc = "raised" =>
         /\ steps = << "translate", "execute" >>
         /\ session = session0
    /\ Occurs("execute_failed") =>
         /\ steps = << "translate", "execute", "execute_failed" >>
         /\ pc = "idle"
         /\ session = session0

C1_Witness ==
    /\ Occurs("execute_failed")
    /\ session0.last_df # None
    /\ pc = "idle"

\* C2: after two create_db builds in succession the table holds exactly 5000
\* rows with pairwise distinct transaction_id values that form one contiguous
\* integer sequence, whatever it held before.
C2_TwoBuilds ==
    hist = << "create_db", "create_db" >> =>
        /\ store.exists
        /\ Len(store.ids) = NUM_ROWS
        /\ Cardinality({ store.ids[i] : i \in 1..Len(store.ids) }) = NUM_ROWS
        /\ \A i \in 1..(Len(store.ids) - 1) : store.ids[i + 1] = store.ids[i] + 1

C2_Witness ==
    /\ hist = << "create_db", "create_db" >>
    /\ Len(store.ids) = NUM_ROWS
    /\ v1runs > 0

\* the part with its leading language tag, if any, taken off
WithoutTag(part) == IF StartsWith(part, TAG) THEN SubSeq(part, Len(TAG) + 1, Len(part)) ELSE part

\* C3: for a response that contains a code fence, the returned SQL is a part
\* that contains SELECT (any case) with its language tag removed, or, when no
\* part contains SELECT, the trimmed response verbatim.
C3_FenceExtraction ==
    (pc = "translator_done" /\ Contains(Strip(raw), FENCE)) =>
        LET parts == Split(Strip(raw), FENCE)
            sel == { i \in 1..Len(parts) : Contains(Upper(parts[i]), KEYWORD) }
        IN IF sel # {}
           THEN \E i \in sel : generated_sql = Strip(WithoutTag(Strip(parts[i])))
           ELSE generated_sql = Strip(raw)

\* C4: a run_sql call leaves the card_transactions table as it found it.
C4_ExecutorReadOnly == [][pc = "query" => store' = store]_vars

\* C5: outside a run_sql call no connection is open, inside one only the
\* connection that call opened is, and no two calls used the same connection.
C5_ConnectionPerCall ==
    /\ pc \notin {"query", "close"} => conns = {}
    /\ pc \in {"query", "close"} => conns = {Last(connLog)}
    /\ \A i, j \in 1..Len(connLog) : i # j => connLog[i] # connLog[j]

C5_Witness ==
    /\ pc = "raised"
    /\ Len(connLog) >= 2
    /\ conns = {}

\* C6: for a result with zero rows the Validator returns the zero-rows warning
\* and nothing else.
C6_EmptyResult ==
    (pc = "validator_done" /\ Len(df.rows) = 0) =>
        checks = << Msg("zero_rows", 0, 0) >>

C6_Witness ==
    /\ pc = "validator_done" /\ Len(df.rows) = 0
    /\ HasCol(df, "amount") /\ HasCol(df, "is_fraud")
    /\ Len(checks) = 1

\* C7: with an amount column and at least one row, the total-amount message is
\* emitted, directly followed by the negative-total warning iff the sum is below
\* 0 and by the zero-total warning iff the sum is 0, never by both.
C7_AmountWarnings ==
    (pc = "validator_done" /\ HasCol(df, "amount") /\ Len(df.rows) >= 1) =>
        LET total == Sum(Col(df, "amount")) IN
        /\ \E i \in 1..Len(checks) :
             /\ checks[i] = Msg("total_amount", total, 0)
             /\ Has("negative_total") => (i < Len(checks) /\ checks[i + 1].kind = "negative_total")
             /\ Has("zero_total") => (i < Len(checks) /\ checks[i + 1].kind = "zero_total")
        /\ Has("negative_total") <=> total < 0
        /\ Has("zero_total") <=> total = 0
        /\ ~(Has("negative_total") /\ Has("zero_total"))

C7_Witness ==
    /\ pc = "validator_done" /\ HasCol(df, "amount") /\ Len(df.rows) = 2
    /\ Col(df, "amount") = << -1, 1 >>
    /\ Has("zero_total") /\ ~Has("negative_total")

\* C8: with an is_fraud column and at least one row, the fraud-rate message is
\* emitted, with the high-fraud message iff the rate is above 10 and the
\* low-sample message iff it is below 0.1, never both; a rate of exactly 5, 10
\* or 0.1 gives neither.
C8_FraudWarnings ==
    (pc = "validator_done" /\ HasCol(df, "is_fraud") /\ Len(df.rows) >= 1) =>
        LET total == Sum(Col(df, "is_fraud"))
            n == Len(df.rows)
        IN \* the rate is (total / 1000 / n) * 100 = total / (10 * n)
        /\ Has("fraud_rate")
        /\ Has("high_fraud") <=> total > 10 * (10 * n)
        /\ Has("low_fraud") <=> 10 * total < 10 * n
        /\ ~(Has("high_fraud") /\ Has("low_fraud"))
        /\ (total = 5 * (10 * n) \/ total = 10 * (10 * n) \/ 10 * total = 10 * n)
             => (~Has("high_fraud") /\ ~Has("low_fraud"))

C8_Witness ==
    /\ pc = "validator_done" /\ HasCol(df, "is_fraud") /\ Len(df.rows) >= 1
    /\ Sum(Col(df, "is_fraud")) = 100 * Len(df.rows)
    /\ Has("fraud_rate") /\ ~Has("high_fraud") /\ ~Has("low_fraud")

AmountKinds == {"total_amount", "negative_total", "zero_total"}
FraudKinds == {"fraud_rate", "high_fraud", "low_fraud"}

\* C9: for a non-empty result the first message is the row/column count, the
\* amount messages are there iff there is an amount column, the fraud messages
\* iff there is an is_fraud column, and every amount message precedes every
\* fraud message.
C9_OrderAndIndependence ==
    (pc = "validator_done" /\ ~Empty(df)) =>
        /\ Len(checks) >= 1
        /\ checks[1] = Msg("row_col_count", Len(df.rows), Len(df.columns))
        /\ \A i \in 2..Len(checks) : checks[i].kind \in AmountKinds \cup FraudKinds
        /\ (\E i \in 1..Len(checks) : checks[i].kind \in AmountKinds) <=> HasCol(df, "amount")
        /\ (\E i \in 1..Len(checks) : checks[i].kind \in FraudKinds) <=> HasCol(df, "is_fraud")
        /\ \A i, j \in 1..Len(checks) :
             (checks[i].kind \in AmountKinds /\ checks[j].kind \in FraudKinds) => i < j

C9_Witness ==
    /\ pc = "validator_done" /\ ~Empty(df)
    /\ df.columns = << "is_fraud", "amount" >>
    /\ Has("zero_total") /\ Has("high_fraud")

\* C10: the three session keys are all absent or all present and written by one
\* cycle whose Translator and Executor both returned; the Validator is called
\* on that cycle's result, and the Reporter on that cycle's question, SQL and
\* result, only when the result is non-empty and the checkbox is checked.
C10_MatchingTriple ==
    /\ (session.last_question = None) = (session.last_df = None)
    /\ (session.last_sql = None) = (session.last_df = None)
    /\ pc # "returned" => SessionTriple = lastOk
    /\ Occurs("validate") => (session.last_df # None /\ validatedOn = session.last_df)
    /\ (Occurs("report") \/ Occurs("report_failed")) =>
         /\ reportedOn = SessionTriple
         /\ reportedOn # None
         /\ ~Empty(reportedOn[1][3])
         /\ opt_in

C10_Witness ==
    /\ Occurs("report") /\ pc = "idle"
    /\ session.last_question # None
    /\ session.last_question[1] # user_question
    /\ lastOk = SessionTriple

====
